---- MODULE Spec2Model ----
(***************************************************************************)
(* Model of backend/content/models.py: the upload path deriver             *)
(* set_filename_to_uuid, the post_delete receiver delete_image_file, and   *)
(* the relational declarations of Resource, Location, Discussion and       *)
(* DiscussionEntry as the ORM enforces them.                               *)
(*                                                                         *)
(* Strings are sequences of one-character strings, so that splitting,      *)
(* lowercasing and joining are computed character by character.            *)
(***************************************************************************)
EXTENDS Integers, Sequences, FiniteSets, TLC

VARIABLES
    d_instance,     \* SpecDerive: the instance handed to set_filename_to_uuid
    d_filename,     \* SpecDerive: the original filename handed to it
    d_path,         \* SpecDerive: the returned path
    d_pc,           \* SpecDerive: "call" before the call, "done" after
    images,         \* Image table: id -> [file_object]
    imageIds,       \* Image ids ever assigned (uuid4 never repeats)
    files,          \* storage: names of the stored files
    pc,             \* position inside Model.delete() of an Image
    instance,       \* the in-memory Image passed to the post_delete receiver
    row,            \* the Image row as it was when delete() began
    opRequests,     \* storage.delete(name) calls made by the current delete()
    outcome,        \* how the last Image delete() ended
    users,          \* authentication.UserModel ids that exist
    locations,      \* Location ids that exist
    resources,      \* Resource table: id -> [location, created_by]
    discussions,    \* Discussion table: id -> [created_by, deletion_date]
    entries,        \* DiscussionEntry table: id -> [discussion, created_by]
    usedIds,        \* per table, the ids ever assigned
    lastOp          \* the last relational operation and its result

vars == <<d_instance, d_filename, d_path, d_pc,
          images, imageIds, files, pc, instance, row, opRequests, outcome,
          users, locations, resources, discussions, entries, usedIds, lastOp>>

deriveVars == <<d_instance, d_filename, d_path, d_pc>>
imageVars == <<images, imageIds, files, pc, instance, row, opRequests, outcome>>
relVars == <<users, locations, resources, discussions, entries, usedIds, lastOp>>

(***************************************************************************)
(* Bounds                                                                  *)
(***************************************************************************)
\* length of an identifier's text (str(UUID) has one fixed length)
IdLen == 2
\* longest original filename
MaxNameLen == 3

IdChars == {"a", "4"}
NameChars == {"J", "p", ".", "/"}

RECURSIVE SeqsOfLen(_, _)
SeqsOfLen(S, n) ==
    IF n = 0 THEN {<<>>}
    ELSE {Append(s, c) : s \in SeqsOfLen(S, n - 1), c \in S}

\* the texts of identifiers: all of the same length
Ids == SeqsOfLen(IdChars, IdLen)
\* original filenames: non-empty
Filenames == UNION {SeqsOfLen(NameChars, n) : n \in 1..MaxNameLen}

\* the absent value
NULL == <<>>
EmptyStr == <<>>

(***************************************************************************)
(* set_filename_to_uuid                                                    *)
(***************************************************************************)
\* str.rfind, 1-based, 0 when absent
RFind(p, c) ==
    LET S == {k \in 1..Len(p) : p[k] = c}
    IN  IF S = {} THEN 0 ELSE CHOOSE k \in S : \A m \in S : m <= k

\* the while loop of os.path.splitext: scan from filenameIndex up to dotIndex
\* for a character that is not the extension separator
RECURSIVE ScanNonDot(_, _, _)
ScanNonDot(p, filenameIndex, dotIndex) ==
    IF filenameIndex < dotIndex
    THEN IF p[filenameIndex] # "." THEN TRUE
         ELSE ScanNonDot(p, filenameIndex + 1, dotIndex)
    ELSE FALSE

\* os.path.splitext(filename)[1]
SplitExt1(p) ==
    LET sepIndex == RFind(p, "/")
        dotIndex == RFind(p, ".")
    IN  IF dotIndex > sepIndex /\ ScanNonDot(p, sepIndex + 1, dotIndex)
        THEN SubSeq(p, dotIndex, Len(p))
        ELSE EmptyStr

\* str.lower on one character of the alphabet
LowerChar(c) ==
    CASE c = "J" -> "j"
      [] c = "P" -> "p"
      [] OTHER -> c

Lower(s) == [k \in 1..Len(s) |-> LowerChar(s[k])]

\* a faulty variant: the extension kept as uploaded
LowerKeepCase(s) == s

\* ext.lower() of line 52
ExtLower(s) == Lower(s)

\* os.path.join(a, b) of posixpath
PathJoin(a, b) ==
    IF Len(b) > 0 /\ b[1] = "/" THEN b
    ELSE IF a = EmptyStr \/ a[Len(a)] = "/" THEN a \o b
    ELSE a \o <<"/">> \o b

ImagesDir == <<"i", "m", "a", "g", "e", "s", "/">>

\* a faulty variant: the original name kept beside the identifier
NewFilenameKeepName(id, filename) == id \o Lower(filename)

\* a faulty variant: the original name used instead of the identifier
NewFilenameFromName(id, filename) == Lower(filename)

\* f"{instance.id}{ext.lower()}"
NewFilename(id, filename) == id \o ExtLower(SplitExt1(filename))

set_filename_to_uuid(id, filename) == PathJoin(ImagesDir, NewFilename(id, filename))

(***************************************************************************)
(* SpecDerive: set_filename_to_uuid applied to every identifier and        *)
(* original filename of the bounded sets                                   *)
(***************************************************************************)
NoInstance == [id |-> EmptyStr, file_object |-> EmptyStr]

NoOutcome == [id |-> EmptyStr, ended |-> FALSE, storage_failed |-> FALSE, raised |-> FALSE]

IdleImage ==
    /\ images = <<>>
    /\ imageIds = {}
    /\ files = {}
    /\ pc = "idle"
    /\ instance = NoInstance
    /\ row = NoInstance
    /\ opRequests = <<>>
    /\ outcome = NoOutcome

NoOp == [op |-> "none", id |-> NULL, arg |-> NULL, ok |-> TRUE]

Models == {"UserModel", "Location", "Resource", "Discussion", "DiscussionEntry"}

IdleRel ==
    /\ users = {}
    /\ locations = {}
    /\ resources = <<>>
    /\ discussions = <<>>
    /\ entries = <<>>
    /\ usedIds = [m \in Models |-> {}]
    /\ lastOp = NoOp

IdleDerive ==
    /\ d_instance = NULL
    /\ d_filename = NULL
    /\ d_path = NULL
    /\ d_pc = "unused"

InitDerive ==
    /\ d_instance \in [id : Ids]
    /\ d_filename \in Filenames
    /\ d_path = NULL
    /\ d_pc = "call"
    /\ IdleImage
    /\ IdleRel

\* upload_to=set_filename_to_uuid: the storage layer asks for the path
Derive ==
    /\ d_pc = "call"
    /\ d_path' = set_filename_to_uuid(d_instance.id, d_filename)
    /\ d_pc' = "done"
    /\ UNCHANGED <<d_instance, d_filename>>
    /\ UNCHANGED imageVars
    /\ UNCHANGED relVars

NextDerive == Derive

SpecDerive == InitDerive /\ [][NextDerive]_vars

(***************************************************************************)
(* What "the extension of a filename" means, stated without the scan:      *)
(* E is the text from the last dot of the last path component on, when     *)
(* that component has a character other than a dot before that dot.        *)
(***************************************************************************)
IsExtensionOf(E, f) ==
    \E k \in 1..Len(f) :
        /\ E = SubSeq(f, k, Len(f))
        /\ f[k] = "."
        /\ \A m \in (k + 1)..Len(f) : f[m] \notin {".", "/"}
        /\ \E m \in 1..(k - 1) :
              /\ f[m] # "."
              /\ \A n \in m..(k - 1) : f[n] # "/"

Suffixes(f) == {SubSeq(f, k, Len(f)) : k \in 1..Len(f)}

HasExtension(f) == \E E \in Suffixes(f) : IsExtensionOf(E, f)

UpperChars == {"J", "P"}

\* r is E with every uppercase letter replaced by its lowercase letter
IsLowercaseOf(r, E) ==
    /\ Len(r) = Len(E)
    /\ \A k \in 1..Len(E) :
          /\ r[k] \notin UpperChars
          /\ (E[k] \notin UpperChars => r[k] = E[k])
          /\ (E[k] = "J" => r[k] = "j")
          /\ (E[k] = "P" => r[k] = "p")

\* C1: for every identifier and every filename that has an extension E, the
\* returned path is "images/" + id + lowercase(E): the identifier unchanged,
\* the base name gone, the extension in lowercase.
C1_PathWithExtension ==
    d_pc = "done" =>
        \A E \in Suffixes(d_filename) :
            IsExtensionOf(E, d_filename) =>
                /\ Len(d_path) = Len(ImagesDir) + Len(d_instance.id) + Len(E)
                /\ SubSeq(d_path, 1, Len(ImagesDir)) = ImagesDir
                /\ SubSeq(d_path, Len(ImagesDir) + 1,
                          Len(ImagesDir) + Len(d_instance.id)) = d_instance.id
                /\ IsLowercaseOf(SubSeq(d_path,
                                        Len(ImagesDir) + Len(d_instance.id) + 1,
                                        Len(d_path)), E)

\* "p.J" was uploaded and the path ends in ".j"
C1_Witness ==
    /\ d_pc = "done"
    /\ d_filename = <<"p", ".", "J">>
    /\ d_path = ImagesDir \o d_instance.id \o <<".", "j">>

\* C7: for every identifier and every filename with no extension, the
\* returned path is exactly "images/" + id.
C7_PathWithoutExtension ==
    (d_pc = "done" /\ ~HasExtension(d_filename)) =>
        d_path = ImagesDir \o d_instance.id

\* a name without a dot, and a name whose only dot leads its last component
C7_Witness ==
    /\ d_pc = "done"
    /\ d_filename \in {<<"J", "p">>, <<"p", "/", ".">>}
    /\ d_path = ImagesDir \o d_instance.id

\* C8: two records with different identifiers never get the same path,
\* whatever the two original filenames are.
C8_CollisionFree ==
    d_pc = "done" =>
        \A id2 \in Ids \ {d_instance.id} : \A f2 \in Filenames :
            set_filename_to_uuid(id2, f2) # d_path

\* the same original filename uploaded for two records
C8_Witness ==
    /\ d_pc = "done"
    /\ d_filename = <<"p", ".", "J">>
    /\ \E id2 \in Ids \ {d_instance.id} :
          /\ SplitExt1(d_filename) = <<".", "J">>
          /\ set_filename_to_uuid(id2, d_filename) # d_path

(***************************************************************************)
(* SpecImage: Image records, their stored files, and delete_image_file     *)
(***************************************************************************)
\* Image records created in one run
MaxImages == 2

\* what is uploaded with a new Image: the empty name is an Image saved
\* without a file
UploadNames == {<<"p", ".", "J">>, <<"J", "p">>}

Remove(tbl, S) == [x \in DOMAIN tbl \ S |-> tbl[x]]

InitImage ==
    /\ IdleDerive
    /\ IdleImage
    /\ IdleRel

\* class Image: id defaults to a fresh uuid4, file_object is stored under
\* the name upload_to returns
CreateImage(id, upload) ==
    /\ pc = "idle"
    /\ id \notin imageIds
    /\ Cardinality(imageIds) < MaxImages
    /\ LET name == IF upload = EmptyStr THEN EmptyStr
                   ELSE set_filename_to_uuid(id, upload)
       IN  /\ images' = (id :> [file_object |-> name]) @@ images
           /\ files' = IF upload = EmptyStr THEN files ELSE files \cup {name}
    /\ imageIds' = imageIds \cup {id}
    /\ UNCHANGED <<pc, instance, row, opRequests, outcome>>
    /\ UNCHANGED deriveVars
    /\ UNCHANGED relVars

\* Image.delete(): the row is removed, then post_delete is sent with the
\* instance still in memory
DeleteImage(id) ==
    /\ pc = "idle"
    /\ id \in DOMAIN images
    /\ row' = [id |-> id, file_object |-> images[id].file_object]
    /\ instance' = [id |-> id, file_object |-> images[id].file_object]
    /\ images' = Remove(images, {id})
    /\ opRequests' = <<>>
    /\ outcome' = NoOutcome
    /\ pc' = "post_delete"
    /\ UNCHANGED <<imageIds, files>>
    /\ UNCHANGED deriveVars
    /\ UNCHANGED relVars

\* a faulty variant: the guard of line 74 dropped
HookCallsUnguarded(inst) == <<inst.file_object>>

\* a faulty variant: the file deleted once by the receiver and once more
HookCallsTwice(inst) ==
    IF inst.file_object # EmptyStr
    THEN <<inst.file_object, inst.file_object>>
    ELSE <<>>

\* the names delete_image_file asks the storage to delete:
\* if instance.file_object: instance.file_object.delete(...)
HookCalls(inst) ==
    IF inst.file_object # EmptyStr THEN <<inst.file_object>> ELSE <<>>

\* a faulty variant: delete(save=True)
SaveTrue == TRUE

\* the save argument of line 75
save == FALSE

\* instance.file_object.delete(save): the name is cleared on the instance
\* and, with save, the instance is written back
FieldFileDelete(tbl, inst, sv) ==
    IF sv THEN (inst.id :> [file_object |-> EmptyStr]) @@ tbl ELSE tbl

Range(q) == {q[k] : k \in 1..Len(q)}

\* @receiver(post_delete, sender=Image)
delete_image_file ==
    /\ pc = "post_delete"
    /\ LET calls == HookCalls(instance)
       IN  IF calls = <<>>
           THEN /\ pc' = "returned"
                /\ UNCHANGED <<images, files, instance, opRequests>>
           ELSE /\ opRequests' = opRequests \o calls
                /\ \/ \* the storage deletes the file
                      /\ files' = files \ Range(calls)
                      /\ instance' = [instance EXCEPT !.file_object = EmptyStr]
                      /\ images' = FieldFileDelete(images, instance', save)
                      /\ pc' = "returned"
                   \/ \* the storage raises: nothing catches it
                      /\ pc' = "raised"
                      /\ UNCHANGED <<images, files, instance>>
    /\ UNCHANGED <<imageIds, row, outcome>>
    /\ UNCHANGED deriveVars
    /\ UNCHANGED relVars

\* the receiver returned: delete() commits and returns to its caller
DeleteReturns ==
    /\ pc = "returned"
    /\ outcome' = [id |-> row.id, ended |-> TRUE, storage_failed |-> FALSE, raised |-> FALSE]
    /\ pc' = "idle"
    /\ UNCHANGED <<images, imageIds, files, instance, row, opRequests>>
    /\ UNCHANGED deriveVars
    /\ UNCHANGED relVars

\* the receiver raised inside the delete's transaction: the row removal is
\* rolled back and the exception reaches the caller of delete()
DeleteRaises ==
    /\ pc = "raised"
    /\ images' = (row.id :> [file_object |-> row.file_object]) @@ images
    /\ outcome' = [id |-> row.id, ended |-> TRUE, storage_failed |-> TRUE, raised |-> TRUE]
    /\ pc' = "idle"
    /\ UNCHANGED <<imageIds, files, instance, row, opRequests>>
    /\ UNCHANGED deriveVars
    /\ UNCHANGED relVars

NextImage ==
    \/ \E id \in Ids : \E upload \in UploadNames \cup {EmptyStr} : CreateImage(id, upload)
    \/ \E id \in Ids : DeleteImage(id)
    \/ delete_image_file
    \/ DeleteReturns
    \/ DeleteRaises

SpecImage == InitImage /\ [][NextImage]_vars

\* the receiver has run for the record whose delete() is in progress
HookRan == pc \in {"returned", "raised"}

\* C2: a delete() of an Image whose file reference is non-empty makes
\* exactly one delete request to the storage, and the request names that
\* record's own stored file.
C2_OneRequestForOwnFile ==
    (HookRan /\ row.file_object # EmptyStr) =>
        opRequests = <<row.file_object>>

\* an Image with a file was deleted while another Image with a file exists
C2_Witness ==
    /\ pc = "returned"
    /\ row.file_object # EmptyStr
    /\ \E other \in DOMAIN images : images[other].file_object # EmptyStr
    /\ opRequests = <<row.file_object>>

\* C6: a delete() of an Image whose file reference is empty makes no delete
\* request to the storage.
C6_NoRequestWithoutFile ==
    (HookRan /\ row.file_object = EmptyStr) => opRequests = <<>>

\* an Image without a file was deleted and the receiver has returned
C6_Witness ==
    /\ pc = "returned"
    /\ row.id # EmptyStr
    /\ row.file_object = EmptyStr
    /\ row.id \notin DOMAIN images

\* C4 as stated: when the storage fails to delete the file, the caller of
\* delete() sees no failure and the Image record stays deleted.
C4_FailureNotPropagated ==
    (outcome.ended /\ outcome.storage_failed) =>
        /\ ~outcome.raised
        /\ outcome.id \notin DOMAIN images

\* C10: the storage is asked to delete an Image's file only once that Image
\* record has been removed, and the record is still absent when the
\* receiver has returned.
C10_HookAfterRemoval ==
    [][ /\ (Len(opRequests') > Len(opRequests) =>
               /\ instance.id \notin DOMAIN images
               /\ instance.id \in imageIds)
        /\ ((pc = "post_delete" /\ pc' = "returned") =>
               row'.id \notin DOMAIN images') ]_vars

\* the receiver asked for the file's deletion and has returned
C10_Witness ==
    /\ pc = "returned"
    /\ opRequests # <<>>
    /\ row.id \in imageIds
    /\ row.id \notin DOMAIN images
    /\ row.file_object \notin files

(***************************************************************************)
(* The relational declarations, and create and delete as the ORM runs them *)
(***************************************************************************)
MaxUsers == 1
MaxLocations == 2
MaxResources == 3
MaxDiscussions == 2
MaxEntries == 2

Pks(n) == {<<k>> : k \in 1..n}

\* the primary keys a run can draw for each table (stand-ins for uuid4 values)
IdPool(m) ==
    CASE m = "UserModel" -> Pks(MaxUsers)
      [] m = "Location" -> Pks(MaxLocations)
      [] m = "Resource" -> Pks(MaxResources)
      [] m = "Discussion" -> Pks(MaxDiscussions)
      [] m = "DiscussionEntry" -> Pks(MaxEntries)

\* a faulty variant: Resource.location declared as a plain ForeignKey
Resource_location_ForeignKey ==
    [to |-> "Location", on_delete |-> "CASCADE", null |-> FALSE, unique |-> FALSE]

\* Resource.location = OneToOneField("content.Location", on_delete=CASCADE,
\*                                   null=False, blank=False)
Resource_location ==
    [to |-> "Location", on_delete |-> "CASCADE", null |-> FALSE, unique |-> TRUE]

\* Resource.created_by = ForeignKey("authentication.UserModel", on_delete=CASCADE)
Resource_created_by ==
    [to |-> "UserModel", on_delete |-> "CASCADE", null |-> FALSE, unique |-> FALSE]

\* Discussion.created_by = ForeignKey("authentication.UserModel", on_delete=CASCADE)
Discussion_created_by ==
    [to |-> "UserModel", on_delete |-> "CASCADE", null |-> FALSE, unique |-> FALSE]

\* a faulty variant: the entries left alone when their Discussion goes
DiscussionEntry_discussion_DoNothing ==
    [to |-> "Discussion", on_delete |-> "DO_NOTHING", null |-> FALSE, unique |-> FALSE]

\* DiscussionEntry.discussion = ForeignKey("content.Discussion", on_delete=CASCADE)
DiscussionEntry_discussion ==
    [to |-> "Discussion", on_delete |-> "CASCADE", null |-> FALSE, unique |-> FALSE]

\* DiscussionEntry.created_by = ForeignKey("authentication.UserModel", on_delete=CASCADE)
DiscussionEntry_created_by ==
    [to |-> "UserModel", on_delete |-> "CASCADE", null |-> FALSE, unique |-> FALSE]

\* every foreign key the module declares between the modelled tables
ForeignKeys ==
    { [model |-> "Resource", field |-> "location", decl |-> Resource_location],
      [model |-> "Resource", field |-> "created_by", decl |-> Resource_created_by],
      [model |-> "Discussion", field |-> "created_by", decl |-> Discussion_created_by],
      [model |-> "DiscussionEntry", field |-> "discussion", decl |-> DiscussionEntry_discussion],
      [model |-> "DiscussionEntry", field |-> "created_by", decl |-> DiscussionEntry_created_by] }

\* the rows of a table, as pk -> fields
Table(m) ==
    CASE m = "UserModel" -> [x \in users |-> [pk |-> x]]
      [] m = "Location" -> [x \in locations |-> [pk |-> x]]
      [] m = "Resource" -> resources
      [] m = "Discussion" -> discussions
      [] m = "DiscussionEntry" -> entries

\* one round of the deletion collector: the rows that reference, through a
\* CASCADE foreign key, a row already collected
CollectStep(D) ==
    [m \in Models |->
        D[m] \cup
        UNION { {x \in DOMAIN Table(m) : Table(m)[x][fk.field] \in D[fk.decl.to]} :
                fk \in {k \in ForeignKeys :
                           k.model = m /\ k.decl.on_delete = "CASCADE"} }]

RECURSIVE Collect(_)
Collect(D) ==
    LET N == CollectStep(D)
    IN  IF N = D THEN D ELSE Collect(N)

\* everything that goes when the rows ids of model m are deleted
Collected(m, ids) == Collect([t \in Models |-> IF t = m THEN ids ELSE {}])

\* the tables after the collected rows are removed
Deleted(m, id) ==
    LET D == Collected(m, {id})
    IN  /\ users' = users \ D["UserModel"]
        /\ locations' = locations \ D["Location"]
        /\ resources' = Remove(resources, D["Resource"])
        /\ discussions' = Remove(discussions, D["Discussion"])
        /\ entries' = Remove(entries, D["DiscussionEntry"])

\* what the database accepts for one foreign key value of a new row
FkAccepts(m, decl, field, value) ==
    /\ (value = NULL => decl.null)
    /\ (value # NULL => value \in DOMAIN Table(decl.to))
    /\ (decl.unique /\ value # NULL =>
            \A x \in DOMAIN Table(m) : Table(m)[x][field] # value)

\* the primary key a new row of table m gets: uuid4 values are opaque and
\* never repeat, so the next unused one of the pool stands for any of them
Fresh(m) ==
    {id \in IdPool(m) \ usedIds[m] :
        \A other \in IdPool(m) \ usedIds[m] : id[1] <= other[1]}

Done(op, id, arg, ok) ==
    lastOp' = [op |-> op, id |-> id, arg |-> arg, ok |-> ok]

InitRel ==
    /\ IdleDerive
    /\ IdleImage
    /\ IdleRel

CreateUser(id) ==
    /\ id \in Fresh("UserModel")
    /\ users' = users \cup {id}
    /\ usedIds' = [usedIds EXCEPT !["UserModel"] = @ \cup {id}]
    /\ Done("CreateUser", id, NULL, TRUE)
    /\ UNCHANGED <<locations, resources, discussions, entries>>
    /\ UNCHANGED deriveVars
    /\ UNCHANGED imageVars

DeleteUser(id) ==
    /\ id \in users
    /\ Deleted("UserModel", id)
    /\ Done("DeleteUser", id, NULL, TRUE)
    /\ UNCHANGED usedIds
    /\ UNCHANGED deriveVars
    /\ UNCHANGED imageVars

\* class Location
CreateLocation(id) ==
    /\ id \in Fresh("Location")
    /\ locations' = locations \cup {id}
    /\ usedIds' = [usedIds EXCEPT !["Location"] = @ \cup {id}]
    /\ Done("CreateLocation", id, NULL, TRUE)
    /\ UNCHANGED <<users, resources, discussions, entries>>
    /\ UNCHANGED deriveVars
    /\ UNCHANGED imageVars

DeleteLocation(id) ==
    /\ id \in locations
    /\ Deleted("Location", id)
    /\ Done("DeleteLocation", id, NULL, TRUE)
    /\ UNCHANGED usedIds
    /\ UNCHANGED deriveVars
    /\ UNCHANGED imageVars

\* class Resource: the insert is refused when a constraint of location or
\* created_by does not hold
CreateResource(id, loc, user) ==
    /\ id \in Fresh("Resource")
    /\ IF /\ FkAccepts("Resource", Resource_location, "location", loc)
          /\ FkAccepts("Resource", Resource_created_by, "created_by", user)
       THEN /\ resources' = (id :> [location |-> loc, created_by |-> user]) @@ resources
            /\ usedIds' = [usedIds EXCEPT !["Resource"] = @ \cup {id}]
            /\ Done("CreateResource", id, loc, TRUE)
       ELSE /\ Done("CreateResource", id, loc, FALSE)
            /\ UNCHANGED <<resources, usedIds>>
    /\ UNCHANGED <<users, locations, discussions, entries>>
    /\ UNCHANGED deriveVars
    /\ UNCHANGED imageVars

DeleteResource(id) ==
    /\ id \in DOMAIN resources
    /\ Deleted("Resource", id)
    /\ Done("DeleteResource", id, resources[id].location, TRUE)
    /\ UNCHANGED usedIds
    /\ UNCHANGED deriveVars
    /\ UNCHANGED imageVars

NextResource ==
    \/ \E id \in IdPool("UserModel") : CreateUser(id)
    \/ \E id \in IdPool("UserModel") : DeleteUser(id)
    \/ \E id \in IdPool("Location") : CreateLocation(id)
    \/ \E id \in IdPool("Location") : DeleteLocation(id)
    \/ \E id \in IdPool("Resource") :
          \E loc \in IdPool("Location") \cup {NULL} :
             \E user \in IdPool("UserModel") : CreateResource(id, loc, user)
    \/ \E id \in IdPool("Resource") : DeleteResource(id)

SpecResource == InitRel /\ [][NextResource]_vars

\* C3 as stated: once a Resource has been deleted, the Location it
\* referenced no longer exists.
C3_ResourceDeleteRemovesLocation ==
    (lastOp.op = "DeleteResource" /\ lastOp.ok) => lastOp.arg \notin locations

\* C9: every existing Resource references one Location that exists, no
\* Location is referenced by two Resources, and a Resource created without
\* a Location is refused.
C9_ResourceHasOneLocation ==
    /\ \A r \in DOMAIN resources :
          /\ resources[r].location # NULL
          /\ resources[r].location \in locations
    /\ \A r1, r2 \in DOMAIN resources :
          resources[r1].location = resources[r2].location => r1 = r2
    /\ (lastOp.op = "CreateResource" /\ lastOp.arg = NULL) =>
          /\ ~lastOp.ok
          /\ lastOp.id \notin DOMAIN resources

\* a Resource without a Location was just refused, another Resource exists
\* with its Location, and a Location that had a Resource has been deleted
C9_Witness ==
    /\ lastOp.op = "CreateResource"
    /\ lastOp.arg = NULL
    /\ ~lastOp.ok
    /\ \E r \in DOMAIN resources : resources[r].location \in locations
    /\ \E r \in usedIds["Resource"] : r \notin DOMAIN resources
    /\ \E l \in usedIds["Location"] : l \notin locations

(***************************************************************************)
(* SpecDiscussion: Discussion and DiscussionEntry                          *)
(***************************************************************************)
\* class Discussion
CreateDiscussion(id, user) ==
    /\ id \in Fresh("Discussion")
    /\ IF FkAccepts("Discussion", Discussion_created_by, "created_by", user)
       THEN /\ discussions' =
                  (id :> [created_by |-> user, deletion_date |-> NULL]) @@ discussions
            /\ usedIds' = [usedIds EXCEPT !["Discussion"] = @ \cup {id}]
            /\ Done("CreateDiscussion", id, NULL, TRUE)
       ELSE /\ Done("CreateDiscussion", id, NULL, FALSE)
            /\ UNCHANGED <<discussions, usedIds>>
    /\ UNCHANGED <<users, locations, resources, entries>>
    /\ UNCHANGED deriveVars
    /\ UNCHANGED imageVars

\* Discussion.delete(): the hard delete
DeleteDiscussion(id) ==
    /\ id \in DOMAIN discussions
    /\ Deleted("Discussion", id)
    /\ Done("DeleteDiscussion", id, NULL, TRUE)
    /\ UNCHANGED usedIds
    /\ UNCHANGED deriveVars
    /\ UNCHANGED imageVars

\* class DiscussionEntry
CreateDiscussionEntry(id, disc, user) ==
    /\ id \in Fresh("DiscussionEntry")
    /\ IF /\ FkAccepts("DiscussionEntry", DiscussionEntry_discussion, "discussion", disc)
          /\ FkAccepts("DiscussionEntry", DiscussionEntry_created_by, "created_by", user)
       THEN /\ entries' = (id :> [discussion |-> disc, created_by |-> user]) @@ entries
            /\ usedIds' = [usedIds EXCEPT !["DiscussionEntry"] = @ \cup {id}]
            /\ Done("CreateDiscussionEntry", id, disc, TRUE)
       ELSE /\ Done("CreateDiscussionEntry", id, disc, FALSE)
            /\ UNCHANGED <<entries, usedIds>>
    /\ UNCHANGED <<users, locations, resources, discussions>>
    /\ UNCHANGED deriveVars
    /\ UNCHANGED imageVars

DeleteDiscussionEntry(id) ==
    /\ id \in DOMAIN entries
    /\ Deleted("DiscussionEntry", id)
    /\ Done("DeleteDiscussionEntry", id, entries[id].discussion, TRUE)
    /\ UNCHANGED usedIds
    /\ UNCHANGED deriveVars
    /\ UNCHANGED imageVars

NextDiscussion ==
    \/ \E id \in IdPool("UserModel") : CreateUser(id)
    \/ \E id \in IdPool("UserModel") : DeleteUser(id)
    \/ \E id \in IdPool("Discussion") :
          \E user \in IdPool("UserModel") : CreateDiscussion(id, user)
    \/ \E id \in IdPool("Discussion") : DeleteDiscussion(id)
    \/ \E id \in IdPool("DiscussionEntry") :
          \E disc \in IdPool("Discussion") \cup {NULL} :
             \E user \in IdPool("UserModel") : CreateDiscussionEntry(id, disc, user)
    \/ \E id \in IdPool("DiscussionEntry") : DeleteDiscussionEntry(id)

SpecDiscussion == InitRel /\ [][NextDiscussion]_vars

\* the entries of discussion d
EntriesOf(tbl, d) == {e \in DOMAIN tbl : tbl[e].discussion = d}

\* C5: the hard delete of a Discussion removes every DiscussionEntry that
\* referenced it and leaves the entries of the other Discussions in place.
C5_DiscussionDeleteRemovesEntries ==
    [][ (lastOp'.op = "DeleteDiscussion" /\ lastOp' # lastOp) =>
            /\ lastOp'.id \notin DOMAIN discussions'
            /\ EntriesOf(entries', lastOp'.id) = {}
            /\ \A e \in DOMAIN entries :
                  entries[e].discussion # lastOp'.id =>
                      /\ e \in DOMAIN entries'
                      /\ entries'[e] = entries[e] ]_vars

\* a Discussion with an entry was just deleted, its entry is gone, and the
\* entry of another Discussion is still there
C5_Witness ==
    /\ lastOp.op = "DeleteDiscussion"
    /\ lastOp.id \notin DOMAIN discussions
    /\ \E e \in usedIds["DiscussionEntry"] : e \notin DOMAIN entries
    /\ \E e \in DOMAIN entries : entries[e].discussion \in DOMAIN discussions

====
